---- MODULE Spec2Model ----
(***************************************************************************)
(* Model of the environment activation engine of the Pixi VS Code          *)
(* extension (src/src/environment.ts, first EnvironmentManager class,      *)
(* lines 1-1521).  Every command handler is one action; the handler's      *)
(* sequential code is a composition of step operators over a record `s'    *)
(* holding the program state, and the inputs the handler reads from its    *)
(* collaborators (registered commands, CLI output, picker answers, exit    *)
(* codes, the activation script) are drawn from small sets.                *)
(*                                                                         *)
(* Strings are sequences of tokens, so String.includes is a contiguous     *)
(* sub-sequence test and concatenation is \o.                              *)
(***************************************************************************)
EXTENDS Integers, Sequences, FiniteSets, TLC

(***************************************************************************)
(* Strings                                                                 *)
(***************************************************************************)
Includes(s, n) ==
    \E i \in 1..(Len(s) - Len(n) + 1) : SubSeq(s, i, i + Len(n) - 1) = n

Truthy(s) == s # <<>>

RECURSIVE TrimStart(_)
TrimStart(s) ==
    IF s # <<>> /\ Head(s) = " " THEN TrimStart(Tail(s)) ELSE s

RECURSIVE TrimEnd(_)
TrimEnd(s) ==
    IF s # <<>> /\ s[Len(s)] = " " THEN TrimEnd(SubSeq(s, 1, Len(s) - 1)) ELSE s

Trim(s) == TrimEnd(TrimStart(s))

\* index of the first occurrence of token t in s, 0 when there is none
RECURSIVE IndexFrom(_, _, _)
IndexFrom(s, t, i) ==
    IF i > Len(s) THEN 0
    ELSE IF s[i] = t THEN i
    ELSE IndexFrom(s, t, i + 1)

IndexOf(s, t) == IndexFrom(s, t, 1)

\* s.split(t): the pieces of s between the occurrences of token t
RECURSIVE Split(_, _)
Split(s, t) ==
    LET i == IndexOf(s, t)
    IN  IF i = 0 THEN <<s>>
        ELSE <<SubSeq(s, 1, i - 1)>> \o Split(SubSeq(s, i + 1, Len(s)), t)

(***************************************************************************)
(* Maps (JS objects, Map, process.env): functions over a finite key set    *)
(***************************************************************************)
EmptyMap == [k \in {} |-> <<>>]

Has(m, k) == k \in DOMAIN m

Put(m, k, v) == [x \in (DOMAIN m) \cup {k} |-> IF x = k THEN v ELSE m[x]]

Remove(m, k) == [x \in (DOMAIN m) \ {k} |-> m[x]]

(***************************************************************************)
(* Program constants                                                       *)
(***************************************************************************)
Absent == "<undefined>"

\* config.get('offlineEnvironmentName', 'env')
offlineName == "env"

\* config.get('environment', 'default')
FallbackEnvironment == "default"

\* path.delimiter (POSIX)
Delimiter == ":"

\* path.dirname(pixiPath) for the workspace /ws
pixiBinDir == <<"/ws/", ".pixi", "/bin">>

separator == "___PIXI_VSCODE_SEPARATOR___"

candidates == <<"corker.micromamba.deactivate.environment",
                "micromamba.deactivate",
                "micromamba.deactivateEnvironment">>

conflicts == <<"VIRTUAL_ENV", "PYTHONPATH", "CONDA_DEFAULT_ENV",
               "CONDA_PYTHON_EXE", "CONDA_PROMPT_MODIFIER">>

TermKeys == {"TERM", "TERMINFO", "TERMINFO_DIRS"}

DiffExcluded == {"_", "SHLVL", "PWD", "OLDPWD", "TERM", "TERMINFO", "TERMINFO_DIRS"}

\* the order in which printenv lists the environment block
KeyOrder == <<"PATH", "PWD", "TERM", "TERMINFO", "SHLVL", "FOO", "BAR",
              "CONDA_PREFIX", "CONDA_DEFAULT_ENV", "VIRTUAL_ENV">>

(***************************************************************************)
(* Inputs of the collaborators                                             *)
(***************************************************************************)
\* the environment the editor was launched with
AmbientIds == {"A_plain", "A_base", "A_mamba", "A_path", "A_nocmd"}

PlainEnv ==
    [k \in {"PATH", "TERM", "PWD"} |->
        CASE k = "PATH" -> <<"/usr/bin">>
          [] k = "TERM" -> <<"xterm">>
          [] k = "PWD"  -> <<"/ws">>]

AmbientEnv(a) ==
    CASE a = "A_plain" -> PlainEnv
      [] a = "A_base"  -> Put(Put(Put(PlainEnv, "CONDA_PREFIX", <<"/conda">>),
                                  "CONDA_DEFAULT_ENV", <<"base">>),
                              "FOO", <<"bar">>)
      [] a \in {"A_mamba", "A_nocmd"} ->
                          Put(Put(PlainEnv, "CONDA_PREFIX", <<"/opt/mamba/", "x">>),
                              "CONDA_DEFAULT_ENV", <<"x">>)
      [] a = "A_path"  -> Put(Put(Put(PlainEnv,
                                  "CONDA_PREFIX", <<"/ws/", ".pixi/envs", "/default">>),
                                  "CONDA_DEFAULT_ENV", <<"default">>),
                              "PATH", <<"/home/.", "micromamba/envs/", "dirty/bin",
                                        Delimiter, "/usr/bin">>)

\* vscode.commands.getCommands(true): fixed by the extensions the editor runs
HostCommands(a) ==
    IF a = "A_nocmd" THEN {"other.command"}
    ELSE IF a = "A_base" THEN {"corker.micromamba.deactivate.environment",
                               "micromamba.deactivate", "other.command"}
    ELSE {"micromamba.deactivate", "other.command"}

\* the environment names `pixi info --json' reports, 'default' filtered out
EnvLists == {<<>>, <<"dev">>}

\* e.exitCode when a task process ends: zero, non-zero, or none at all
ExitCodes == {"0", "1", Absent}

\* stdout/stderr of `pixi shell-hook --json'
HookIds == {"H_dev", "H_bin", "H_old", "H_nomap", "H_badjson"}

HookParses(h) == h # "H_badjson"

HookHasMap(h) == h \in {"H_dev", "H_bin", "H_old"}

HookVars(h) ==
    CASE h = "H_dev" ->
            [k \in {"PATH", "CONDA_PREFIX", "FOO"} |->
                CASE k = "PATH" -> <<"/ws/", ".pixi/envs", "/dev/bin", Delimiter, "/usr/bin">>
                  [] k = "CONDA_PREFIX" -> <<"/ws/", ".pixi/envs", "/dev">>
                  [] k = "FOO" -> <<"dev">>]
      [] h = "H_bin" ->
            [k \in {"PATH", "TERM"} |->
                CASE k = "PATH" -> pixiBinDir \o <<Delimiter, "/usr/bin">>
                  [] k = "TERM" -> <<"dumb">>]
      [] h = "H_old" ->
            [k \in {"PATH"} |-> pixiBinDir \o <<"-old", Delimiter, "/usr/bin">>]
      [] OTHER -> EmptyMap

HookStderr(h) == IF h = "H_bin" THEN <<"activated">> ELSE <<>>

\* what the CLI answers for each environment name of the manifest in /ws
HookFor(envName) ==
    CASE envName = "dev"     -> "H_dev"
      [] envName \in {"default", ""} -> "H_bin"
      [] envName = "env"     -> "H_old"
      [] envName = "prod"    -> "H_nomap"
      [] OTHER               -> "H_badjson"

\* the offline activation script, as the function it computes on the
\* environment of the shell that sources it
ScriptIds == {"S_foo", "S_path", "S_nosep"}

NoScript == "none"

Get(env, k) == IF Has(env, k) THEN env[k] ELSE <<>>

RunScript(sc, env) ==
    CASE sc = "S_foo"  -> Put(Put(env, "FOO", <<"bar">>), "TERM", <<"dumb">>)
      [] sc = "S_path" -> Put(Put(Put(env,
                                "PATH", <<"/off/bin", Delimiter>> \o Get(env, "PATH")),
                                "CONDA_DEFAULT_ENV", <<"off", "=", "1">>),
                              "PWD", <<"/ws/", ".pixi/envs">>)
      [] OTHER -> env

\* printenv
RECURSIVE DumpFrom(_, _)
DumpFrom(env, i) ==
    IF i > Len(KeyOrder) THEN <<>>
    ELSE (IF Has(env, KeyOrder[i])
          THEN <<KeyOrder[i], "=">> \o env[KeyOrder[i]] \o <<"\n">>
          ELSE <<>>) \o DumpFrom(env, i + 1)

printenv(env) == DumpFrom(env, 1)

\* stdout of the diff subprocess: printenv && echo separator && source script && printenv
DiffStdout(sc, runEnv) ==
    IF sc = "S_nosep" THEN printenv(runEnv)
    ELSE printenv(runEnv) \o <<separator, "\n">> \o printenv(RunScript(sc, runEnv))

(***************************************************************************)
(* State                                                                   *)
(***************************************************************************)
VARIABLES
    collection,     \* context.environmentVariableCollection: key -> [value, op]
    procEnv,        \* process.env of the extension host
    savedEnv,       \* workspaceState['pixiSelectedEnvironment']
    cachedEnv,      \* workspaceState['pixi.cachedEnv']
    isActive,       \* context key pixi.isEnvironmentActive
    cfgEnvironment, \* setting pixi.environment
    cfgDefault,     \* setting pixi.defaultEnvironment
    pixiInstalled,  \* .pixi/bin/pixi is executable
    envDirs,        \* names e for which .pixi/envs/e exists
    scriptFile,     \* .pixi/envs/activate.sh: which script it is, or none
    ambient,        \* which environment the editor was launched with
    op,             \* the handler that ran last
    trace,          \* the effects of that handler, in program order
    conflictEnv,    \* process.env as the conflict detector last read it
    lastDiff,       \* before / after / result of the last offline diff
    lastPath,       \* the last PATH value applied: as resolved and as written
    lastCache,      \* the snapshot last applied and the collection it left
    prev,           \* the state the last handler started from, and what the
                    \* handler before it resolved
    steps,          \* how many handlers have run
    budget,         \* how many handlers the session runs
    inFlight,       \* the calls of activate() suspended at their first await
    envQuery,       \* one call of getEnvironments: the CLI's answer, the
                    \* setting pixi.showDefaultEnvironment, the list returned
    scripts,        \* activate.sh and activate.bat in the workspace root
    download,       \* one call of downloadFile
    install         \* one call of runInstallInTerminal: the promise it returns,
                    \* the task it executes, the host's other tasks

vars == <<collection, procEnv, savedEnv, cachedEnv, isActive, cfgEnvironment,
          cfgDefault, pixiInstalled, envDirs, scriptFile, ambient, op, trace,
          conflictEnv, lastDiff, lastPath, lastCache, prev, steps, budget,
          inFlight, envQuery, scripts, download, install>>

\* the variables of the activation engine
workspaceVars ==
    <<collection, procEnv, savedEnv, cachedEnv, isActive, cfgEnvironment,
      cfgDefault, pixiInstalled, envDirs, scriptFile, ambient, op, trace,
      conflictEnv, lastDiff, lastPath, lastCache, prev, steps, budget,
      inFlight>>

NoQuery == [info |-> [ok |-> FALSE, names |-> <<>>], showDefault |-> FALSE,
            called |-> FALSE, result |-> <<>>]

NoFile == [exists |-> FALSE, content |-> <<>>]

NoScripts == [files |-> [f \in {"activate.sh", "activate.bat"} |-> NoFile],
              before |-> [f \in {"activate.sh", "activate.bat"} |-> NoFile],
              op |-> "none", calls |-> 0]

NoDownload == [phase |-> "idle", retries |-> 0, remaining |-> 0, requests |-> 0]

NoInstall == [phase |-> "idle", envName |-> "<undefined>", task |-> "none",
              listener |-> "none", process |-> "none",
              exitCode |-> "<undefined>", others |-> 0]

NoCache == [present |-> FALSE, envName |-> Absent, envVars |-> EmptyMap]

NoDiff == [present |-> FALSE, before |-> EmptyMap, after |-> EmptyMap,
           updates |-> EmptyMap]

NoPath == [by |-> "none", resolved |-> <<>>, written |-> <<>>]

NoEnv == [present |-> FALSE, env |-> EmptyMap, commands |-> {}]

NoSnapshot == [present |-> FALSE, envVars |-> EmptyMap, coll |-> EmptyMap]

\* the record a handler works on
St(name) ==
    [coll |-> collection, env |-> procEnv, saved |-> savedEnv,
     cached |-> cachedEnv, active |-> isActive, cfgEnv |-> cfgEnvironment,
     cfgDefault |-> cfgDefault, installed |-> pixiInstalled,
     envDirs |-> envDirs, script |-> scriptFile, commands |-> HostCommands(ambient),
     op |-> name, trace |-> <<>>, conflictEnv |-> NoEnv,
     lastDiff |-> NoDiff, lastPath |-> NoPath, lastCache |-> NoSnapshot,
     parked |-> <<>>]

Ev(s, e) == [s EXCEPT !.trace = Append(@, e)]

BoolStr(b) == IF b THEN "true" ELSE "false"

(***************************************************************************)
(* Host API steps                                                          *)
(***************************************************************************)
\* environmentVariableCollection.clear()
Clear(s) == Ev([s EXCEPT !.coll = EmptyMap], <<"clear">>)

\* environmentVariableCollection.replace(key, value)
Replace(s, key, value, by) ==
    Ev([s EXCEPT !.coll = Put(@, key, [value |-> value, op |-> "replace"])],
       <<"coll", key, by>>)

\* environmentVariableCollection.prepend(key, value)
Prepend(s, key, value, by) ==
    Ev([s EXCEPT !.coll = Put(@, key, [value |-> value, op |-> "prepend"])],
       <<"coll", key, by>>)

\* process.env[key] = value
SetEnv(s, key, value, by) ==
    Ev([s EXCEPT !.env = Put(@, key, value)], <<"proc", key, by>>)

\* workspaceState.update(envStateKey, name)
SetSaved(s, name) == Ev([s EXCEPT !.saved = name], <<"state", name>>)

\* workspaceState.update(cachedEnvKey, snapshot)
SetCached(s, snapshot) ==
    Ev([s EXCEPT !.cached = snapshot], <<"cache", snapshot.envName>>)

\* executeCommand('setContext', 'pixi.isEnvironmentActive', b)
SetActive(s, b) == Ev([s EXCEPT !.active = b], <<"active", BoolStr(b)>>)

\* window.show{Information,Warning,Error}Message
Message(s, kind, id) == Ev(s, <<"msg", kind, id>>)

\* await showInformationMessage(..., "Reload", "Later"): the handler is
\* suspended here until the user answers; parked is the record as the
\* suspended handler leaves it
ReloadPrompt(s) ==
    [Message(s, "info", "reload?") EXCEPT
        !.parked = IF @ = <<>> THEN <<Message(s, "info", "reload?")>> ELSE @]

NotePath(s, by, resolved, written) ==
    [s EXCEPT !.lastPath = [by |-> by, resolved |-> resolved, written |-> written]]

KeysOf(m) == SelectSeq(KeyOrder, LAMBDA k : k \in DOMAIN m)

(***************************************************************************)
(* doActivate: the live path                                               *)
(***************************************************************************)
\* an augmentation that does not look at the value first
AugmentPathAlways(value) == pixiBinDir \o <<Delimiter>> \o value

\* environment.ts 292-297
AugmentPath(value) ==
    IF ~Includes(value, pixiBinDir)
    THEN pixiBinDir \o <<Delimiter>> \o value
    ELSE value

LiveValue(key, value) == IF key = "PATH" THEN AugmentPath(value) ELSE value

\* a write that leaves alone what process.env already defines
WriteLiveVarUnlessSet(s, key, resolved, v) ==
    IF Has(s.env, key) THEN s
    ELSE SetEnv(Replace(s, key, v, "hook"), key, v, "hook")

\* environment.ts 299-300 with the value v the loop computed from `resolved'
WriteLiveVar(s, key, resolved, v) ==
    IF key = "PATH"
    THEN NotePath(SetEnv(Replace(s, key, v, "hook"), key, v, "hook"), "hook", resolved, v)
    ELSE SetEnv(Replace(s, key, v, "hook"), key, v, "hook")

\* environment.ts 287-301, one iteration
ApplyLiveVar(s, key, value) == WriteLiveVar(s, key, value, LiveValue(key, value))

RECURSIVE ApplyLiveVars(_, _, _)
ApplyLiveVars(s, envVars, keys) ==
    IF keys = <<>> THEN s
    ELSE ApplyLiveVars(ApplyLiveVar(s, Head(keys), envVars[Head(keys)]),
                       envVars, Tail(keys))

\* environment.ts 308-321
LiveMessages(s) == ReloadPrompt(Message(s, "info", "activated"))

\* environment.ts 304-334
LiveNotify(s, envName, silent, h) ==
    IF silent THEN s
    ELSE IF Truthy(HookStderr(h))
    THEN Prepend(Replace(LiveMessages(s), "PIXI_ACTIVATION_MSG", HookStderr(h), "msg"),
                 "PROMPT_COMMAND", <<"echo-once">>, "msg")
    ELSE LiveMessages(s)

\* environment.ts 339-345
LiveFailed(s, silent) ==
    IF silent THEN Ev(s, <<"log", "error", "activate">>)
    ELSE Message(s, "error", "activate")

\* environment.ts 266-271
HookEnvVars(h) == IF HookHasMap(h) THEN HookVars(h) ELSE EmptyMap

\* environment.ts 266-345 for one output of the shell-hook subprocess
HookParsed(s, envName, silent, h) ==
    IF ~HookParses(h) THEN LiveFailed(s, silent)
    ELSE SetActive(LiveNotify(ApplyLiveVars(s, HookEnvVars(h), KeysOf(HookEnvVars(h))),
                              envName, silent, h),
                   TRUE)

\* environment.ts 236-345 for one output of the shell-hook subprocess
HookApply(s, envName, silent, h) ==
    HookParsed(Ev(s, <<"hook", envName, h, BoolStr(silent)>>), envName, silent, h)

\* without the binary neither the install task nor the shell-hook can succeed
InstallExits(s) == IF s.installed THEN ExitCodes ELSE {"1"}

HookResults(s, envName) ==
    IF s.installed THEN {HookFor(envName), "H_badjson"} ELSE {"H_badjson"}

\* a successful `pixi install -e name' leaves .pixi/envs/name behind
Installed(s, envName) ==
    [s EXCEPT !.envDirs = @ \cup {IF envName = "" THEN "default" ELSE envName}]

DoResolve(s, envName, silent) ==
    { HookApply(s, envName, silent, h) : h \in HookResults(s, envName) }

\* an install step that goes on whatever the task's exit code
InstallStepIgnoringExit(s, envName, runs) ==
    IF ~runs THEN {[s |-> s, ok |-> TRUE]}
    ELSE { [s |-> Installed(Ev(s, <<"install", envName, code>>), envName), ok |-> TRUE]
         : code \in IF s.installed THEN {"0", "1", Absent} ELSE {"1"} }

\* environment.ts 226-234: the states the install step lets through, and the
\* states it ends the activation in
InstallStep(s, envName, runs) ==
    IF ~runs THEN {[s |-> s, ok |-> TRUE]}
    ELSE { IF code = "0"
           THEN [s |-> Installed(Ev(s, <<"install", envName, code>>), envName), ok |-> TRUE]
           ELSE [s |-> Message(Ev(s, <<"install", envName, code>>), "error", "install"),
                 ok |-> FALSE]
         : code \in InstallExits(s) }

\* environment.ts 210-346
doActivate(s, envName, silent, forceInstall) ==
    UNION { IF r.ok THEN DoResolve(r.s, envName, silent) ELSE {r.s}
          : r \in InstallStep(s, envName, ~silent \/ forceInstall) }

(***************************************************************************)
(* activateOfflineEnvironment: the shell diff                              *)
(***************************************************************************)
\* how often the offline script may stack its directory onto PATH
MaxStacked == 2

Stacked(value) == Cardinality({i \in 1..Len(value) : value[i] = "/off/bin"})

\* environment.ts 1405
SetParsed(map, key, value) == IF Truthy(key) THEN Put(map, key[1], value) ELSE map

\* environment.ts 1402-1406
ParseAt(map, line, idx) ==
    IF idx > 1
    THEN SetParsed(map, Trim(SubSeq(line, 1, idx - 1)),
                   Trim(SubSeq(line, idx + 1, Len(line))))
    ELSE map

\* environment.ts 1400-1406, one line of a printenv block
ParseLine(map, line) == ParseAt(map, line, IndexOf(line, "="))

RECURSIVE ParseLines(_, _)
ParseLines(map, lines) ==
    IF lines = <<>> THEN map
    ELSE ParseLines(ParseLine(map, Head(lines)), Tail(lines))

\* environment.ts 1397-1409
parseEnv(output) == ParseLines(EmptyMap, Split(output, "\n"))

\* a diff step that does not compare with the value before
DiffStepUncompared(envUpdates, beforeEnv, key, value) ==
    IF key \in DiffExcluded THEN envUpdates ELSE Put(envUpdates, key, value)

\* environment.ts 1416-1422, one iteration
DiffStep(envUpdates, beforeEnv, key, value) ==
    IF ~Has(beforeEnv, key) \/ value # beforeEnv[key]
    THEN IF key \in DiffExcluded THEN envUpdates ELSE Put(envUpdates, key, value)
    ELSE envUpdates

RECURSIVE DiffLoop(_, _, _, _)
DiffLoop(envUpdates, beforeEnv, afterEnv, keys) ==
    IF keys = <<>> THEN envUpdates
    ELSE DiffLoop(DiffStep(envUpdates, beforeEnv, Head(keys), afterEnv[Head(keys)]),
                  beforeEnv, afterEnv, Tail(keys))

\* environment.ts 1411-1423
ComputeDiff(beforeEnv, afterEnv) ==
    DiffLoop(EmptyMap, beforeEnv, afterEnv, KeysOf(afterEnv))

\* environment.ts 1356-1367
RECURSIVE DeleteKeys(_, _)
DeleteKeys(runEnv, keys) ==
    IF keys = <<>> THEN runEnv
    ELSE DeleteKeys(IF Head(keys) # "PATH" THEN Remove(runEnv, Head(keys)) ELSE runEnv,
                    Tail(keys))

Sanitize(env, cached, envName) ==
    IF cached.present /\ cached.envName = envName
    THEN DeleteKeys(env, KeysOf(cached.envVars))
    ELSE env

\* environment.ts 1434-1439
RECURSIVE ClearConflicts(_, _, _)
ClearConflicts(s, envUpdates, i) ==
    IF i > Len(conflicts) THEN s
    ELSE ClearConflicts(IF ~Has(envUpdates, conflicts[i])
                        THEN Replace(s, conflicts[i], <<>>, "conflict")
                        ELSE s,
                        envUpdates, i + 1)

\* environment.ts 1443-1444
WriteOfflineVar(s, key, value) ==
    SetEnv(Replace(s, key, value, "diff"), key, value, "diff")

\* environment.ts 1441-1446, one iteration
ApplyOfflineVar(s, key, value) ==
    IF key = "PATH"
    THEN NotePath(WriteOfflineVar(s, key, value), "diff", value, value)
    ELSE WriteOfflineVar(s, key, value)

RECURSIVE ApplyOfflineVars(_, _, _)
ApplyOfflineVars(s, envUpdates, keys) ==
    IF keys = <<>> THEN s
    ELSE ApplyOfflineVars(ApplyOfflineVar(s, Head(keys), envUpdates[Head(keys)]),
                          envUpdates, Tail(keys))

\* environment.ts 1458-1477
OfflineNotify(s, silent) ==
    IF silent THEN s
    ELSE ReloadPrompt(Message(s, "info", "offline-activated"))

\* environment.ts 1481-1487
OfflineFailed(s, silent) ==
    Ev(IF silent THEN s ELSE Message(s, "error", "offline"),
       <<"log", "error", "offline">>)

NoteDiff(s, beforeEnv, afterEnv, envUpdates) ==
    [s EXCEPT !.lastDiff = [present |-> TRUE, before |-> beforeEnv,
                            after |-> afterEnv, updates |-> envUpdates]]

\* environment.ts 1425-1478 with the updates the diff computed
OfflineApply(s, envName, silent, envUpdates) ==
    SetActive(
        OfflineNotify(
            SetCached(ApplyOfflineVars(ClearConflicts(s, envUpdates, 1),
                                       envUpdates, KeysOf(envUpdates)),
                      [present |-> TRUE, envName |-> envName, envVars |-> envUpdates]),
            silent),
        TRUE)

\* environment.ts 1411-1478 with the two parsed blocks
OfflineDiff(s, envName, silent, beforeEnv, afterEnv) ==
    OfflineApply(NoteDiff(s, beforeEnv, afterEnv, ComputeDiff(beforeEnv, afterEnv)),
                 envName, silent, ComputeDiff(beforeEnv, afterEnv))

\* environment.ts 1392-1478 with the pieces of stdout
OfflineParts(s, envName, silent, parts) ==
    IF Len(parts) < 2 THEN OfflineFailed(s, silent)
    ELSE OfflineDiff(s, envName, silent, parseEnv(parts[1]), parseEnv(parts[2]))

\* environment.ts 1351-1488 for one activation script
OfflineRun(s, envName, silent, sc) ==
    OfflineParts(Ev(s, <<"diff", envName, sc, BoolStr(silent)>>), envName, silent,
                 Split(DiffStdout(sc, Sanitize(s.env, s.cached, envName)), separator))

\* the script can be sourced (PATH is kept within MaxStacked entries of it)
Runnable(s) ==
    s.script = "S_path" => Stacked(Get(s.env, "PATH")) < MaxStacked

\* the result of a call that did nothing
Unhandled(s) == [s |-> s, handled |-> FALSE]

\* an offline activation for which a missing script is the end of the attempt
activateOfflineEnvironmentFatal(s, envName, silent) ==
    IF s.script = NoScript
    THEN {[s |-> Ev(s, <<"noscript", envName, BoolStr(s.installed)>>), handled |-> TRUE]}
    ELSE IF ~Runnable(s) THEN {}
    ELSE {[s |-> OfflineRun(s, envName, silent, s.script), handled |-> TRUE]}

\* environment.ts 1328-1489: the set of (state, handled) the call can end in;
\* a call that finds no script notes it (with whether the CLI is installed)
activateOfflineEnvironment(s, envName, silent) ==
    IF s.script = NoScript
    THEN {Unhandled(Ev(s, <<"noscript", envName, BoolStr(s.installed)>>))}
    ELSE IF ~Runnable(s) THEN {}
    ELSE {[s |-> OfflineRun(s, envName, silent, s.script), handled |-> TRUE]}

(***************************************************************************)
(* activate                                                                *)
(***************************************************************************)
Range(seq) == {seq[i] : i \in 1..Len(seq)}

\* environment.ts 1134-1136
CurrentEnv(saved, cfgEnv) ==
    IF saved # Absent THEN saved
    ELSE IF cfgEnv # Absent THEN cfgEnv
    ELSE FallbackEnvironment

\* environment.ts 1153
CommandToRun(commands) ==
    LET hits == {i \in 1..Len(candidates) : candidates[i] \in commands}
    IN  IF hits = {} THEN Absent
        ELSE candidates[CHOOSE i \in hits : \A j \in hits : i <= j]

\* the prefix test without its exception for the base environment
IsPrefixActiveInBase(env) ==
    /\ Truthy(Get(env, "CONDA_PREFIX"))
    /\ ~Includes(Get(env, "CONDA_PREFIX"), <<".pixi/envs">>)

\* environment.ts 1162-1168
IsPrefixActive(env) ==
    /\ Truthy(Get(env, "CONDA_PREFIX"))
    /\ Get(env, "CONDA_DEFAULT_ENV") # <<"base">>
    /\ ~Includes(Get(env, "CONDA_PREFIX"), <<".pixi/envs">>)

\* environment.ts 1173
IsPathActive(env) ==
    \/ Includes(Get(env, "PATH"), <<"micromamba/envs/">>)
    \/ Includes(Get(env, "PATH"), <<"micromamba\\envs\\">>)

NoteConflictEnv(s, commands) ==
    [s EXCEPT !.conflictEnv = [present |-> TRUE, env |-> s.env, commands |-> commands]]

\* environment.ts 1180-1183 and 1186-1188: the foreign command completes
\* and the delay follows, or it rejects and the catch block logs
AfterForeignCommand(s) ==
    {Ev(s, <<"settle">>), Ev(s, <<"log", "error", "mamba">>)}

\* a detector that does not wait after the foreign command
DetectConflictUnsettled(s, commands) ==
    IF CommandToRun(commands) # Absent /\ (IsPrefixActive(s.env) \/ IsPathActive(s.env))
    THEN {Ev(NoteConflictEnv(s, commands), <<"mamba", CommandToRun(commands)>>)}
    ELSE {NoteConflictEnv(s, commands)}

\* environment.ts 1145-1188
DetectConflict(s, commands) ==
    IF CommandToRun(commands) # Absent /\ (IsPrefixActive(s.env) \/ IsPathActive(s.env))
    THEN AfterForeignCommand(Ev(NoteConflictEnv(s, commands),
                                <<"mamba", CommandToRun(commands)>>))
    ELSE {NoteConflictEnv(s, commands)}

\* a cache application that skips no key
SkipNoCachedKey(key) == FALSE

\* environment.ts 1196
SkipCachedKey(key) == key \in TermKeys

\* a snapshot that reaches process.env only
WriteCachedVarToProcess(s, key, value) == SetEnv(s, key, value, "cache")

\* environment.ts 1198-1199
WriteCachedVar(s, key, value) ==
    Replace(SetEnv(s, key, value, "cache"), key, value, "cache")

\* environment.ts 1195-1200, one iteration
ApplyCachedVar(s, key, value) ==
    IF SkipCachedKey(key) THEN s
    ELSE IF key = "PATH"
    THEN NotePath(WriteCachedVar(s, key, value), "cache", value, value)
    ELSE WriteCachedVar(s, key, value)

RECURSIVE ApplyCachedVars(_, _, _)
ApplyCachedVars(s, envVars, keys) ==
    IF keys = <<>> THEN s
    ELSE ApplyCachedVars(ApplyCachedVar(s, Head(keys), envVars[Head(keys)]),
                         envVars, Tail(keys))

\* the collection as the loop of 1195-1200 leaves it, before anything else runs
NoteCache(s, envVars) ==
    [s EXCEPT !.lastCache = [present |-> TRUE, envVars |-> envVars, coll |-> s.coll]]

\* environment.ts 1191-1202
ApplyCache(s, currentEnv) ==
    IF currentEnv = offlineName /\ s.cached.present /\ s.cached.envName = offlineName
    THEN NoteCache(ApplyCachedVars(Ev(s, <<"cacheHit", offlineName>>),
                                   s.cached.envVars, KeysOf(s.cached.envVars)),
                   s.cached.envVars)
    ELSE s

\* environment.ts 1298-1305
AutoSelect(currentEnv, envs) ==
    IF currentEnv # "" /\ (currentEnv \in Range(envs) \/ currentEnv = "default")
    THEN currentEnv
    ELSE IF Len(envs) > 0 THEN envs[1]
    ELSE ""

EnvListsFor(s) == IF s.installed THEN EnvLists ELSE {<<>>}

\* environment.ts 1308-1321: the selection is saved and, when it is the
\* offline environment, the offline activation is tried
Selected(s, silent, selectedEnv) ==
    IF selectedEnv = offlineName
    THEN activateOfflineEnvironment(SetSaved(s, selectedEnv), offlineName, silent)
    ELSE {Unhandled(IF selectedEnv # "" THEN SetSaved(s, selectedEnv) ELSE s)}

\* environment.ts 1308-1323
Dispatch(s, silent, selectedEnv) ==
    UNION { IF r.handled THEN {r.s} ELSE doActivate(r.s, selectedEnv, silent, FALSE)
          : r \in Selected(s, silent, selectedEnv) }

\* environment.ts 1289-1306: what selectedEnv can be; Absent when the picker
\* is dismissed
Selections(silent, currentEnv, envs) ==
    IF ~silent /\ Len(envs) > 0
    THEN Range(envs) \cup {Absent}
    ELSE {AutoSelect(currentEnv, envs)}

Picked(s, silent, envs, pick) ==
    IF ~silent /\ Len(envs) > 0 THEN Ev(s, <<"pick", pick>>) ELSE s

\* a dismissed picker that forgets the selection
SelectFromForgetting(s, silent, currentEnv, envs) ==
    UNION { IF pick = Absent THEN { SetSaved(Picked(s, silent, envs, pick), Absent) }
            ELSE Dispatch(Picked(s, silent, envs, pick), silent, pick)
          : pick \in Selections(silent, currentEnv, envs) }

\* environment.ts 1287-1323
SelectFrom(s, silent, currentEnv, envs) ==
    UNION { IF pick = Absent THEN { Picked(s, silent, envs, pick) }
            ELSE Dispatch(Picked(s, silent, envs, pick), silent, pick)
          : pick \in Selections(silent, currentEnv, envs) }

\* environment.ts 1282-1285
Listed(l, offlineAvailable) ==
    IF offlineAvailable /\ offlineName \notin Range(l) THEN Append(l, offlineName) ELSE l

\* environment.ts 1281-1323
Select(s, silent, currentEnv, offlineAvailable) ==
    UNION { SelectFrom(Ev(s, <<"envs">> \o Listed(l, offlineAvailable)), silent,
                       currentEnv, Listed(l, offlineAvailable))
          : l \in EnvListsFor(s) }

RECURSIVE activate(_, _)

RECURSIVE createEnvironment(_)

\* environment.ts 1267-1273
AskCreate(s) == Message(Ev(s, <<"log", "info", "pixi-missing">>), "info", "create?")

\* environment.ts 1267-1278
PixiMissing(s, silent) ==
    IF silent THEN { Ev(s, <<"log", "info", "pixi-missing">>) }
    ELSE { AskCreate(s) }
         \cup createEnvironment(Ev(AskCreate(s), <<"pick", "Create Environment">>))

\* environment.ts 1233-1265: the offline environment is offered (interactive)
\* or taken (silent); picked tells that the user chose it
OfferOffline(s, silent) ==
    (IF silent THEN {}
     ELSE {[s |-> Ev(s, <<"pick", Absent>>), handled |-> FALSE, picked |-> FALSE]})
    \cup { [s |-> r.s, handled |-> r.handled, picked |-> ~silent]
         : r \in activateOfflineEnvironment(
                    SetSaved(IF silent THEN s ELSE Ev(s, <<"pick", offlineName>>),
                             offlineName),
                    offlineName, silent) }

\* environment.ts 1232-1279
NotInstalled(s, silent, offlineAvailable) ==
    UNION { IF r.handled THEN {r.s}
            ELSE IF r.picked THEN { Message(r.s, "error", "script-missing") }
            ELSE PixiMissing(r.s, silent)
          : r \in IF offlineAvailable THEN OfferOffline(s, silent)
                  ELSE {[s |-> s, handled |-> FALSE, picked |-> FALSE]} }

\* environment.ts 1228-1323
ActivateRest(s, silent, currentEnv) ==
    IF ~s.installed
    THEN NotInstalled(s, silent, offlineName \in s.envDirs)
    ELSE Select(s, silent, currentEnv, offlineName \in s.envDirs)

\* environment.ts 1207-1223
OfflineShortcut(s, silent, currentEnv) ==
    IF silent /\ currentEnv = offlineName /\ offlineName \in s.envDirs
    THEN activateOfflineEnvironment(s, offlineName, silent)
    ELSE {Unhandled(s)}

\* environment.ts 1190-1323
ActivateFrom(s, silent, currentEnv) ==
    UNION { IF r.handled THEN {r.s} ELSE ActivateRest(r.s, silent, currentEnv)
          : r \in OfflineShortcut(ApplyCache(s, currentEnv), silent, currentEnv) }

\* environment.ts 1125-1140: what activate() does before its first await
ActivateEntry(s, silent) == Clear(Ev(s, <<"activate", BoolStr(silent)>>))

\* environment.ts 1145-1323: activate() from its first await on, with the
\* currentEnv it read before
ActivateResumed(s, silent, currentEnv) ==
    UNION { ActivateFrom(d, silent, currentEnv) : d \in DetectConflict(s, s.commands) }

\* environment.ts 1125-1324
activate(s, silent) ==
    ActivateResumed(ActivateEntry(s, silent), silent, CurrentEnv(s.saved, s.cfgEnv))

\* environment.ts 79-113; installPixi either leaves the binary or throws
createEnvironment(s) ==
    (IF s.installed THEN {}
     ELSE { Message(Ev(s, <<"installPixi", "failed">>), "error", "create") })
    \cup activate(IF s.installed THEN s
                  ELSE Ev([s EXCEPT !.installed = TRUE], <<"installPixi", "ok">>),
                  FALSE)

(***************************************************************************)
(* deactivate, autoActivate, loadOfflineEnvironment, clearEnvironment      *)
(***************************************************************************)
\* environment.ts 430-436
ResetOfflineSetting(s) ==
    IF s.cfgEnv = offlineName THEN [s EXCEPT !.cfgEnv = Absent] ELSE s

\* environment.ts 444-460
DeactivateNotify(s, silent) ==
    IF silent THEN s
    ELSE ReloadPrompt(Message(s, "info", "deactivated"))

\* deactivate that leaves the cache snapshot in the workspace storage
deactivateKeepingCache(s, silent) ==
    SetActive(
        DeactivateNotify(
            Clear(ResetOfflineSetting(
                SetSaved(Ev(s, <<"deactivate", BoolStr(silent)>>), Absent))),
            silent),
        FALSE)

\* environment.ts 423-467
deactivate(s, silent) ==
    SetActive(
        DeactivateNotify(
            Clear(ResetOfflineSetting(
                SetCached(SetSaved(Ev(s, <<"deactivate", BoolStr(silent)>>), Absent),
                          NoCache))),
            silent),
        FALSE)

\* PixiManager.ensurePixi (pixi.ts 105-110) inside the try of environment.ts 165-169
EnsurePixi(s) ==
    IF s.installed THEN {s}
    ELSE { Ev([s EXCEPT !.installed = TRUE], <<"installPixi", "ok">>),
           Ev(s, <<"log", "error", "ensurePixi">>) }

\* a default read with the fallback of the setting pixi.environment
ConfiguredDefaultOrFallback(cfg) == IF cfg = Absent THEN FallbackEnvironment ELSE cfg

\* environment.ts 146
ConfiguredDefault(cfg) == cfg

\* environment.ts 154-177: what the local savedEnv becomes for a configured
\* default, and whether the trusted-default branch is taken
AutoTarget(s, defaultEnv, envs) ==
    IF defaultEnv \in Range(envs)
    THEN [s |-> s, target |-> defaultEnv, trusted |-> FALSE]
    ELSE IF Len(envs) = 0
    THEN [s |-> s, target |-> defaultEnv, trusted |-> TRUE]
    ELSE [s |-> Ev(s, <<"log", "info", "default-not-found">>), target |-> Absent,
          trusted |-> FALSE]

\* environment.ts 140-179
AutoTargets(s, defaultEnv) ==
    IF s.saved = Absent /\ defaultEnv # Absent
    THEN { AutoTarget(Ev(s, <<"envs">> \o l), defaultEnv, l) : l \in EnvListsFor(s) }
    ELSE { [s |-> s, target |-> s.saved, trusted |-> FALSE] }

\* environment.ts 181-205
AutoFinish(s, target) ==
    IF target = Absent
    THEN { SetActive(s, FALSE) }
    ELSE activate(IF target # s.saved THEN SetSaved(s, target) ELSE s, TRUE)

\* a trusted-default branch that activates like any startup: silently, unforced
AutoTrustedUnforced(s, defaultEnv) ==
    UNION { doActivate(e, defaultEnv, TRUE, FALSE) : e \in EnsurePixi(s) }

\* environment.ts 164-174
AutoTrusted(s, defaultEnv) ==
    UNION { doActivate(e, defaultEnv, FALSE, TRUE) : e \in EnsurePixi(s) }

\* environment.ts 139-206
autoActivate(s) ==
    UNION { IF t.trusted THEN AutoTrusted(t.s, t.target) ELSE AutoFinish(t.s, t.target)
          : t \in AutoTargets(Ev(s, <<"autoActivate">>), ConfiguredDefault(s.cfgDefault)) }

\* environment.ts 1094-1118
LoadUnpacked(s) ==
    UNION { { Message(a, "info", "offline-loaded")
            : a \in activate(SetSaved(r.s, offlineName), TRUE) }
          : r \in activateOfflineEnvironment(Message(s, "info", "unpacked"),
                                             offlineName, TRUE) }

\* the unpack task: it fails, or leaves the environment and what the archive
\* ships as its activation script
LoadRun(s) ==
    { Message(Ev(s, <<"unpack", "1">>), "error", "unpack") }
    \cup UNION { LoadUnpacked([Ev(s, <<"unpack", "0">>) EXCEPT
                                  !.envDirs = @ \cup {offlineName},
                                  !.script = shipped])
               : shipped \in ScriptIds \cup {NoScript} }

\* the picker, then the clean-up of the old environment directory
LoadPick(s) ==
    { Ev(s, <<"pick", Absent>>) }
    \cup LoadRun([Ev(s, <<"pick", "script">>) EXCEPT !.envDirs = @ \ {offlineName}])

\* environment.ts 977-1123
loadOfflineEnvironment(s) == LoadPick(Ev(s, <<"loadOffline">>))

\* the deletion of .pixi
DeletePixi(s) ==
    IF s.installed \/ s.envDirs # {} \/ s.script # NoScript
    THEN Message([s EXCEPT !.installed = FALSE, !.envDirs = {}, !.script = NoScript],
                 "info", "deleted")
    ELSE Message(s, "info", "nothing-to-delete")

ClearPick(s) ==
    { Ev(s, <<"pick", "No">>), DeletePixi(deactivate(Ev(s, <<"pick", "Yes">>), TRUE)) }

\* environment.ts 611-653
clearEnvironment(s) == ClearPick(Ev(s, <<"clear-command">>))

(***************************************************************************)
(* The specification                                                       *)
(***************************************************************************)
\* the last shell-hook or diff of a handler that went on to set the active flag
Resolution(tr) ==
    LET hits == {i \in 1..Len(tr) : tr[i][1] \in {"hook", "diff"}}
    IN  IF hits = {} THEN <<"none">>
        ELSE LET i == CHOOSE x \in hits : \A y \in hits : y <= x
             IN  IF \E j \in (i + 1)..Len(tr) : tr[j] = <<"active", "true">>
                 THEN tr[i] ELSE <<"none">>

\* how many handlers one behaviour runs
MaxSteps == 2

\* the handler's record becomes the state
Apply(r) ==
    /\ collection' = r.coll
    /\ procEnv' = r.env
    /\ savedEnv' = r.saved
    /\ cachedEnv' = r.cached
    /\ isActive' = r.active
    /\ cfgEnvironment' = r.cfgEnv
    /\ cfgDefault' = r.cfgDefault
    /\ pixiInstalled' = r.installed
    /\ envDirs' = r.envDirs
    /\ scriptFile' = r.script
    /\ op' = r.op
    /\ trace' = r.trace
    /\ conflictEnv' = r.conflictEnv
    /\ lastDiff' = r.lastDiff
    /\ lastPath' = r.lastPath
    /\ lastCache' = r.lastCache
    /\ prev' = [op |-> op, res |-> Resolution(trace), coll |-> collection,
                saved |-> savedEnv, dirs |-> envDirs, cached |-> cachedEnv,
                active |-> isActive, env |-> procEnv]
    /\ UNCHANGED <<ambient, budget, envQuery, scripts, download, install>>

\* a handler that runs from its trigger to its end without another one
\* getting in between
Commit(r) ==
    /\ Apply(r)
    /\ steps' = steps + 1
    /\ UNCHANGED inFlight

\* what a previous version of the extension left in the workspace storage
\* (the fixture of terminal_vars.test.ts 35-71)
LegacyCache ==
    [present |-> TRUE, envName |-> offlineName,
     envVars |-> [k \in {"PATH", "TERM"} |->
                    IF k = "PATH" THEN <<"/new/path">> ELSE <<"bad-term-from-cache">>]]

LegacyCollection ==
    [k \in {"TERM", "BAR"} |->
        [value |-> IF k = "TERM" THEN <<"xterm-256color">> ELSE <<"keep_me">>,
         op |-> "replace"]]

\* what a silent live activation of 'dev' leaves in the collection
DevCollection ==
    [k \in {"PATH", "CONDA_PREFIX", "FOO"} |->
        [value |-> LiveValue(k, HookVars("H_dev")[k]), op |-> "replace"]]

\* The workspace as the extension finds it when it is constructed: fresh;
\* or with an offline environment unpacked and cached by an earlier session;
\* or with 'dev' selected by an earlier session and .pixi/envs deleted since.
Init ==
    /\ \/ /\ ambient \in AmbientIds
          /\ collection = EmptyMap
          /\ savedEnv = Absent
          /\ cachedEnv = NoCache
          /\ envDirs = {}
          /\ scriptFile = NoScript
          /\ pixiInstalled \in BOOLEAN
       \/ /\ ambient \in {"A_plain", "A_base"}
          /\ collection = LegacyCollection
          /\ savedEnv = offlineName
          /\ cachedEnv = LegacyCache
          /\ envDirs = {offlineName}
          /\ scriptFile \in {"S_foo", "S_path"}
          /\ pixiInstalled \in BOOLEAN
       \/ /\ ambient = "A_plain"
          /\ collection = DevCollection
          /\ savedEnv = "dev"
          /\ cachedEnv = NoCache
          /\ envDirs = {}
          /\ scriptFile = NoScript
          /\ pixiInstalled = TRUE
    /\ procEnv = AmbientEnv(ambient)
    /\ isActive = FALSE
    /\ cfgEnvironment = Absent
    /\ cfgDefault = Absent
    /\ op = "init"
    /\ trace = <<>>
    /\ conflictEnv = NoEnv
    /\ lastDiff = NoDiff
    /\ lastPath = NoPath
    /\ lastCache = NoSnapshot
    /\ prev = [op |-> "none", res |-> <<"none">>, coll |-> EmptyMap,
               saved |-> Absent, dirs |-> {}, cached |-> NoCache,
               active |-> FALSE, env |-> EmptyMap]
    /\ steps = 0
    /\ budget = MaxSteps
    /\ inFlight = <<>>
    /\ envQuery = NoQuery
    /\ scripts = NoScripts
    /\ download = NoDownload
    /\ install = NoInstall

\* command pixi.activate (extension.ts 20-22)
ActivateCommand ==
    /\ steps < budget
    /\ \E r \in activate(St("activate"), FALSE) : Commit(r)

\* command pixi.deactivate (extension.ts 24-26)
DeactivateCommand ==
    /\ steps < budget
    /\ Commit(deactivate(St("deactivate"), FALSE))

\* command pixi.loadOfflineEnvironment (extension.ts 16-18)
LoadOfflineCommand ==
    /\ steps < budget
    /\ \E r \in loadOfflineEnvironment(St("loadOffline")) : Commit(r)

\* command pixi.clear (extension.ts 28-30)
ClearCommand ==
    /\ steps < budget
    /\ \E r \in clearEnvironment(St("clear")) : Commit(r)

\* command pixi.createEnvironment (extension.ts 11-13)
CreateEnvironmentCommand ==
    /\ steps < budget
    /\ \E r \in createEnvironment(St("create")) : Commit(r)

\* the window is (re)loaded: a fresh extension host runs extension.ts 5-53
Startup ==
    /\ steps < budget
    /\ \E r \in autoActivate([St("startup") EXCEPT !.env = AmbientEnv(ambient),
                                                    !.active = FALSE]) : Commit(r)

CfgDefaults == {Absent, "dev", "prod"}

\* onDidChangeConfiguration for pixi.defaultEnvironment (extension.ts 57-61)
DefaultEnvironmentChanged ==
    /\ steps < budget
    /\ \E d \in CfgDefaults \ {cfgDefault} :
          \E r \in autoActivate([St("defaultChanged") EXCEPT !.cfgDefault = d]) :
              Commit(r)

\* the user edits the setting pixi.environment
EnvironmentSettingChanged ==
    /\ steps < budget
    /\ \E e \in {Absent, offlineName} \ {cfgEnvironment} :
          Commit([St("settingChanged") EXCEPT !.cfgEnv = e])

\* an environment directory under .pixi/envs is deleted behind the extension's back
EnvDirDeleted ==
    /\ steps < budget
    /\ \E e \in envDirs : Commit([St("dirDeleted") EXCEPT !.envDirs = @ \ {e}])

Next ==
    \/ ActivateCommand
    \/ DeactivateCommand
    \/ LoadOfflineCommand
    \/ ClearCommand
    \/ CreateEnvironmentCommand
    \/ Startup
    \/ DefaultEnvironmentChanged
    \/ EnvironmentSettingChanged
    \/ EnvDirDeleted

Spec == Init /\ [][Next]_vars

(***************************************************************************)
(* One editor session, long enough for the offline environment to be       *)
(* loaded, deactivated and activated again.                                *)
(***************************************************************************)
\* how many handlers such a session runs
MaxSession == 3

InitSession ==
    /\ ambient = "A_plain"
    /\ collection = EmptyMap
    /\ procEnv = AmbientEnv(ambient)
    /\ savedEnv = Absent
    /\ cachedEnv = NoCache
    /\ isActive = FALSE
    /\ cfgEnvironment = Absent
    /\ cfgDefault = Absent
    /\ pixiInstalled \in BOOLEAN
    /\ envDirs = {}
    /\ scriptFile = NoScript
    /\ op = "init"
    /\ trace = <<>>
    /\ conflictEnv = NoEnv
    /\ lastDiff = NoDiff
    /\ lastPath = NoPath
    /\ lastCache = NoSnapshot
    /\ prev = [op |-> "none", res |-> <<"none">>, coll |-> EmptyMap,
               saved |-> Absent, dirs |-> {}, cached |-> NoCache,
               active |-> FALSE, env |-> EmptyMap]
    /\ steps = 0
    /\ budget = MaxSession
    /\ inFlight = <<>>
    /\ envQuery = NoQuery
    /\ scripts = NoScripts
    /\ download = NoDownload
    /\ install = NoInstall

NextSession ==
    \/ LoadOfflineCommand
    \/ DeactivateCommand
    \/ ActivateCommand

SpecSession == InitSession /\ [][NextSession]_vars

(***************************************************************************)
(* The handlers at the grain of the event loop: a call of activate() runs  *)
(* to its first await (getCommands, environment.ts 1145), is suspended     *)
(* there, and is resumed later; triggers that arrive in between are        *)
(* dispatched by the host (extension.ts 20-22 and 57-61).                  *)
(***************************************************************************)
Suspended(name, silent, currentEnv) ==
    [op |-> name, silent |-> silent, currentEnv |-> currentEnv]

Without(seq, k) == SubSeq(seq, 1, k - 1) \o SubSeq(seq, k + 1, Len(seq))

\* activate() up to its first await
Suspend(s, silent) ==
    /\ Apply(ActivateEntry(s, silent))
    /\ steps' = steps + 1
    /\ inFlight' = Append(inFlight,
                          Suspended(s.op, silent, CurrentEnv(s.saved, s.cfgEnv)))

\* command pixi.activate arrives (extension.ts 20-22)
ActivateCommandBegins ==
    /\ steps < budget
    /\ Suspend(St("activate"), FALSE)

\* pixi.defaultEnvironment changes while a selection is saved: autoActivate
\* goes straight to activate(true) (extension.ts 57-61, environment.ts 139-205)
ConfigChangeBegins ==
    /\ steps < budget
    /\ savedEnv # Absent
    /\ \E d \in CfgDefaults \ {cfgDefault} :
          Suspend(Ev([St("defaultChanged") EXCEPT !.cfgDefault = d], <<"autoActivate">>),
                  TRUE)

\* the await of a suspended call settles and the call runs to its end
ActivationResumes ==
    \E k \in 1..Len(inFlight) :
        \E r \in ActivateResumed(St(inFlight[k].op), inFlight[k].silent,
                                 inFlight[k].currentEnv) :
            /\ Apply(r)
            /\ UNCHANGED steps
            /\ inFlight' = Without(inFlight, k)

\* command pixi.deactivate arrives and runs to its end (extension.ts 24-26)
DeactivateCommandArrives ==
    /\ steps < budget
    /\ Apply(deactivate(St("deactivate"), FALSE))
    /\ steps' = steps + 1
    /\ UNCHANGED inFlight

NextAwait ==
    \/ ActivateCommandBegins
    \/ ConfigChangeBegins
    \/ ActivationResumes
    \/ DeactivateCommandArrives

SpecAwait == Init /\ [][NextAwait]_vars

(***************************************************************************)
(* The interactive commands at the grain of the reload prompt: a handler   *)
(* runs to `await showInformationMessage(..., "Reload", "Later")'          *)
(* (environment.ts 314, 453, 1468) and goes on when the user answers.  The *)
(* event loop resumes a handler whose await has settled; nothing makes the *)
(* user answer.                                                            *)
(***************************************************************************)
\* the handler ends, or is suspended at the prompt with the rest of its run
\* kept for the answer
RunToPrompt(r) ==
    /\ Apply(IF r.parked = <<>> THEN r ELSE r.parked[1])
    /\ steps' = steps + 1
    /\ inFlight' = IF r.parked = <<>> THEN inFlight
                   ELSE Append(inFlight, [answered |-> FALSE, rest |-> r])

\* command pixi.activate (extension.ts 20-22)
ActivateCommandRuns ==
    /\ steps < budget
    /\ inFlight = <<>>
    /\ \E r \in activate(St("activate"), FALSE) : RunToPrompt(r)

\* command pixi.deactivate (extension.ts 24-26)
DeactivateCommandRuns ==
    /\ steps < budget
    /\ inFlight = <<>>
    /\ RunToPrompt(deactivate(St("deactivate"), FALSE))

\* the user picks "Reload" or "Later", or closes the notification: the
\* promise of showInformationMessage settles
ReloadPromptAnswered ==
    /\ inFlight # <<>>
    /\ ~Head(inFlight).answered
    /\ inFlight' = <<[Head(inFlight) EXCEPT !.answered = TRUE]>> \o Tail(inFlight)
    /\ UNCHANGED <<collection, procEnv, savedEnv, cachedEnv, isActive,
                   cfgEnvironment, cfgDefault, pixiInstalled, envDirs, scriptFile,
                   ambient, op, trace, conflictEnv, lastDiff, lastPath, lastCache,
                   prev, steps, budget, envQuery, scripts, download, install>>

\* the event loop resumes the handler whose await has settled; it runs to
\* its end
HandlerGoesOn ==
    /\ inFlight # <<>>
    /\ Head(inFlight).answered
    /\ Apply(Head(inFlight).rest)
    /\ UNCHANGED steps
    /\ inFlight' = Tail(inFlight)

NextPrompt ==
    \/ ActivateCommandRuns
    \/ DeactivateCommandRuns
    \/ ReloadPromptAnswered
    \/ HandlerGoesOn

SpecPrompt == Init /\ [][NextPrompt]_vars /\ WF_vars(HandlerGoesOn)

(***************************************************************************)
(* The helpers that do not touch the activation state: getEnvironments,    *)
(* generateActivationScripts, downloadFile.  Each is run from a workspace  *)
(* in which no handler has run.                                            *)
(***************************************************************************)
Quiescent ==
    /\ ambient = "A_plain"
    /\ collection = EmptyMap
    /\ procEnv = AmbientEnv(ambient)
    /\ savedEnv = Absent
    /\ cachedEnv = NoCache
    /\ isActive = FALSE
    /\ cfgEnvironment = Absent
    /\ cfgDefault = Absent
    /\ pixiInstalled = TRUE
    /\ envDirs = {}
    /\ scriptFile = NoScript
    /\ op = "init"
    /\ trace = <<>>
    /\ conflictEnv = NoEnv
    /\ lastDiff = NoDiff
    /\ lastPath = NoPath
    /\ lastCache = NoSnapshot
    /\ prev = [op |-> "none", res |-> <<"none">>, coll |-> EmptyMap,
               saved |-> Absent, dirs |-> {}, cached |-> NoCache,
               active |-> FALSE, env |-> EmptyMap]
    /\ steps = 0
    /\ budget = MaxSteps
    /\ inFlight = <<>>

\* ---- getEnvironments ----------------------------------------------------
\* how many environments `pixi info' lists
MaxEnvs == 3

\* what `pixi info --json' answers: unusable output, or environments_info
EnvInfos ==
    {[ok |-> FALSE, names |-> <<>>]}
    \cup { [ok |-> TRUE, names |-> l] :
             l \in UNION { [1..n -> {"default", "dev", "other"}] : n \in 0..MaxEnvs } }

\* environment.ts 116-137
getEnvironments(info) ==
    IF ~info.ok THEN <<>> ELSE SelectSeq(info.names, LAMBDA n : n # "default")

InitEnvs ==
    /\ Quiescent
    /\ envQuery \in { [info |-> i, showDefault |-> b, called |-> FALSE, result |-> <<>>] :
                        i \in EnvInfos, b \in BOOLEAN }
    /\ scripts = NoScripts
    /\ download = NoDownload
    /\ install = NoInstall

\* a caller awaits getEnvironments() (environment.ts 151, 1281)
QueryEnvironments ==
    /\ ~envQuery.called
    /\ envQuery' = [envQuery EXCEPT !.called = TRUE,
                                    !.result = getEnvironments(envQuery.info)]
    /\ UNCHANGED <<workspaceVars, scripts, download, install>>

NextEnvs == QueryEnvironments

SpecEnvs == InitEnvs /\ [][NextEnvs]_vars

\* ---- generateActivationScripts -------------------------------------------
\* how many times the command is run
MaxCalls == 3

ScriptNames == {"activate.sh", "activate.bat"}

\* shContent (environment.ts 662-704) and batContent (718-775)
Generated(f) ==
    [exists |-> TRUE,
     content |-> IF f = "activate.sh" THEN <<"#!/bin/sh", "shell-hook">>
                 ELSE <<"@echo off", "shell-hook">>]

\* what the workspace root may hold under a script's name
FileStates(f) ==
    {NoFile, Generated(f), [exists |-> TRUE, content |-> <<>>],
     [exists |-> TRUE, content |-> <<"# custom content">>]}

\* a generator that writes whether or not the file is there
WriteScriptAlways(files, f, written) ==
    IF written THEN Generated(f) ELSE files[f]

\* environment.ts 661-711 and 716-782: existsSync, then writeFile, which the
\* try block lets fail
WriteScript(files, f, written) ==
    IF files[f].exists THEN files[f]
    ELSE IF written THEN Generated(f) ELSE files[f]

\* environment.ts 655-785, for each way the two writes may end
generateActivationScripts(files) ==
    { [f \in ScriptNames |-> WriteScript(files, f, w[f])] :
        w \in [ScriptNames -> BOOLEAN] }

InitScripts ==
    /\ Quiescent
    /\ envQuery = NoQuery
    /\ \E fs \in [ScriptNames -> UNION {FileStates(f) : f \in ScriptNames}] :
          /\ \A f \in ScriptNames : fs[f] \in FileStates(f)
          /\ scripts = [files |-> fs, before |-> fs, op |-> "none", calls |-> 0]
    /\ download = NoDownload
    /\ install = NoInstall

\* command pixi.generateScripts (extension.ts 35-37, environment.ts 787-794)
GenerateScriptsCommand ==
    /\ scripts.calls < MaxCalls
    /\ \E fs \in generateActivationScripts(scripts.files) :
          scripts' = [files |-> fs, before |-> scripts.files, op |-> "generate",
                      calls |-> scripts.calls + 1]
    /\ UNCHANGED <<workspaceVars, envQuery, download, install>>

\* the user writes or removes a script (scripts.test.ts 72)
ScriptEdited ==
    /\ \E f \in ScriptNames : \E st \in FileStates(f) \ {scripts.files[f]} :
          scripts' = [scripts EXCEPT !.files[f] = st, !.before = scripts.files,
                                     !.op = "edit"]
    /\ UNCHANGED <<workspaceVars, envQuery, download, install>>

NextScripts ==
    \/ GenerateScriptsCommand
    \/ ScriptEdited

SpecScripts == InitScripts /\ [][NextScripts]_vars

\* ---- downloadFile --------------------------------------------------------
\* retries: number = 3
DefaultRetries == 3

\* the request counter stops counting here
MaxRequests == 5

\* pixi.ts 18-19: attempt(remaining) issues one request
attempt(d, remaining) ==
    [d EXCEPT !.phase = "requesting", !.remaining = remaining,
              !.requests = IF @ < MaxRequests THEN @ + 1 ELSE MaxRequests]

\* pixi.ts 20-51: the response callback, for a status code and a Location
\* header that is missing, an absolute URL, or a path (which new URL rejects)
OnResponse(d, status, location) ==
    IF status \in {301, 302}
    THEN IF location = "absolute" THEN attempt(d, d.retries)
         ELSE [d EXCEPT !.phase = "rejected"]
    ELSE IF status # 200
    THEN IF d.remaining > 0 /\ status \in {504, 503, 502, 500}
         THEN [d EXCEPT !.phase = "backoff"]
         ELSE [d EXCEPT !.phase = "rejected"]
    ELSE [d EXCEPT !.phase = "streaming"]

\* pixi.ts 13-62: the call has issued its first request
InitDownload ==
    /\ Quiescent
    /\ envQuery = NoQuery
    /\ scripts = NoScripts
    /\ install = NoInstall
    /\ \E r \in 0..DefaultRetries :
          download = attempt([NoDownload EXCEPT !.retries = r], r)

ServerAnswers ==
    /\ download.phase = "requesting"
    /\ \E status \in {200, 301, 302, 404, 500, 502, 503, 504},
          location \in {"none", "absolute", "relative"} :
          download' = OnResponse(download, status, location)
    /\ UNCHANGED <<workspaceVars, envQuery, scripts, install>>

\* pixi.ts 53-60: request.on('error')
RequestFails ==
    /\ download.phase = "requesting"
    /\ download' = IF download.remaining > 0
                   THEN [download EXCEPT !.phase = "backoff"]
                   ELSE [download EXCEPT !.phase = "rejected"]
    /\ UNCHANGED <<workspaceVars, envQuery, scripts, install>>

\* pixi.ts 32 and 56: setTimeout(() => attempt(remaining - 1), 1000)
BackoffElapses ==
    /\ download.phase = "backoff"
    /\ download' = attempt(download, download.remaining - 1)
    /\ UNCHANGED <<workspaceVars, envQuery, scripts, install>>

\* pixi.ts 39-50: the write stream finishes or fails
StreamEnds ==
    /\ download.phase = "streaming"
    /\ \E end \in {"resolved", "rejected"} :
          download' = [download EXCEPT !.phase = end]
    /\ UNCHANGED <<workspaceVars, envQuery, scripts, install>>

NextDownload ==
    \/ ServerAnswers
    \/ RequestFails
    \/ BackoffElapses
    \/ StreamEnds

\* every request is answered or fails, every timer fires, every stream ends
SpecDownload == InitDownload /\ [][NextDownload]_vars /\ WF_vars(NextDownload)

\* ---- runInstallInTerminal -------------------------------------------------
\* how many processes of other tasks end while the install is waited for
MaxOthers == 2

\* environment.ts 407-416: the listener of onDidEndTaskProcess, for an event of
\* this execution or of another one; a promise that is settled stays settled
OnDidEndTaskProcess(w, own, exitCode) ==
    IF ~own THEN w
    ELSE [w EXCEPT !.listener = "disposed",
                   !.phase = IF @ # "pending" THEN @
                             ELSE IF exitCode = "0" THEN "resolved" ELSE "rejected"]

\* environment.ts 348-405: the promise is created and executeTask is called
InitInstall ==
    /\ Quiescent
    /\ envQuery = NoQuery
    /\ scripts = NoScripts
    /\ download = NoDownload
    /\ \E e \in {Absent, "default", "dev"} :
          install = [NoInstall EXCEPT !.phase = "pending", !.envName = e,
                                      !.task = "starting"]

\* environment.ts 406 and 417-419: the host answers executeTask; it has
\* started the task's process, or it could not
ExecuteTaskSettles ==
    /\ install.task = "starting"
    /\ \/ install' = [install EXCEPT !.task = "started", !.process = "running"]
       \/ install' = [install EXCEPT !.task = "failed", !.phase = "rejected"]
    /\ UNCHANGED <<workspaceVars, envQuery, scripts, download>>

\* environment.ts 406-416: the callback of executeTask(task).then runs and
\* registers the listener
ListenerRegistered ==
    /\ install.task = "started"
    /\ install.listener = "none"
    /\ install' = [install EXCEPT !.listener = "registered"]
    /\ UNCHANGED <<workspaceVars, envQuery, scripts, download>>

\* the host fires onDidEndTaskProcess: the install task's process has ended,
\* or the process of another task has; the event reaches the listeners that
\* are registered when it is fired
TaskProcessEnds ==
    /\ \E own \in BOOLEAN, code \in ExitCodes \cup {Absent} :
          /\ IF own THEN install.process = "running" ELSE install.others < MaxOthers
          /\ install' =
                LET w == IF own
                         THEN [install EXCEPT !.process = "ended", !.exitCode = code]
                         ELSE [install EXCEPT !.others = @ + 1]
                IN  IF w.listener = "registered"
                    THEN OnDidEndTaskProcess(w, own, code)
                    ELSE w
    /\ UNCHANGED <<workspaceVars, envQuery, scripts, download>>

NextInstall ==
    \/ ExecuteTaskSettles
    \/ ListenerRegistered
    \/ TaskProcessEnds

\* the host answers executeTask and the event loop runs the callback
SpecInstall ==
    InitInstall /\ [][NextInstall]_vars
    /\ WF_vars(ExecuteTaskSettles) /\ WF_vars(ListenerRegistered)

(***************************************************************************)
(* Properties                                                              *)
(***************************************************************************)
Indices == 1..Len(trace)

\* the handlers that can start an activation attempt
ActivationOps == {"activate", "create", "startup", "defaultChanged", "loadOffline"}

\* the handlers that run autoActivate
AutoOps == {"startup", "defaultChanged"}

\* the last handler installed, resolved or applied something
Attempted == \E i \in Indices : trace[i][1] \in {"install", "hook", "diff", "cacheHit"}

\* who wrote key last, to the collection ("coll") or to process.env ("proc"),
\* in the last handler; "nobody" when the handler did not write it
LastWriter(kind, key) ==
    LET hits == {i \in Indices : trace[i][1] = kind /\ trace[i][2] = key}
    IN  IF hits = {} THEN "nobody"
        ELSE trace[CHOOSE i \in hits : \A j \in hits : j <= i][3]

\* the keys the last handler wrote to the collection after its last clear()
WrittenSinceClear ==
    {trace[i][2] : i \in {x \in Indices :
        /\ trace[x][1] = "coll"
        /\ \E c \in 1..(x - 1) : trace[c] = <<"clear">>
        /\ \A c \in (x + 1)..Len(trace) : trace[c] # <<"clear">>}}

\* C1: in every activation attempt, by any entry point, the collection is
\* cleared before the first variable is written, and when the attempt ends the
\* collection holds no value written by an earlier activation.
C1_ClearedBeforeFirstWrite ==
    op \in ActivationOps =>
        /\ \A i \in Indices :
              trace[i][1] = "coll" => \E c \in 1..(i - 1) : trace[c] = <<"clear">>
        /\ Attempted => DOMAIN collection \subseteq WrittenSinceClear

\* the trusted-default branch attempts an activation, its install fails, and
\* the collection still holds what an earlier activation wrote
C1_StaleValueSurvives ==
    /\ op \in AutoOps
    /\ \E i \in Indices : trace[i][1] = "install" /\ trace[i][3] # "0"
    /\ \A i \in Indices : trace[i] # <<"clear">>
    /\ prev.res[1] = "hook"
    /\ collection = prev.coll
    /\ collection # EmptyMap

\* C2: a cache snapshot for the offline environment is never applied when the
\* activation ends with a different environment selected: after a successful
\* activation of another name, no entry of the collection or of process.env
\* holds a value written from the snapshot during that activation.
C2_CacheOnlyForItsEnvironment ==
    (/\ op \in ActivationOps
     /\ Resolution(trace)[1] = "hook"
     /\ savedEnv # offlineName)
    => /\ \A k \in DOMAIN collection : LastWriter("coll", k) # "cache"
       /\ \A k \in DOMAIN procEnv : LastWriter("proc", k) # "cache"

\* C3: after deactivate() completes, from any prior state, the persisted
\* selection is absent, the cache snapshot is absent, the collection is empty
\* and the active flag is false.
C3_DeactivatePostcondition ==
    (\E i \in Indices : trace[i][1] = "deactivate")
    => /\ savedEnv = Absent
       /\ cachedEnv = NoCache
       /\ collection = EmptyMap
       /\ ~isActive

\* a deactivation right after an offline activation that left a selection,
\* a snapshot and variables behind
C3_DeactivatedAfterOffline ==
    /\ op = "deactivate"
    /\ prev.res[1] = "diff"
    /\ prev.saved = offlineName
    /\ prev.coll # EmptyMap

\* C4: for every offline diff and every cache application, TERM, TERMINFO and
\* TERMINFO_DIRS are never written to the collection, to process.env or into
\* the newly persisted snapshot, even when the script sets them or the
\* persisted snapshot holds them.
C4_TerminalKeysNeverApplied ==
    /\ \A i \in Indices :
          (trace[i][1] \in {"coll", "proc"} /\ trace[i][3] \in {"cache", "diff"})
          => trace[i][2] \notin TermKeys
    /\ lastDiff.present => DOMAIN lastDiff.updates \cap TermKeys = {}
    /\ (\E i \in Indices : trace[i][1] = "cache")
       => DOMAIN cachedEnv.envVars \cap TermKeys = {}

\* the first handler of a session finds the snapshot of an earlier version,
\* which holds TERM, applies it, and then sources a script that sets TERM
C4_SnapshotAndScriptSetTerm ==
    /\ steps = 1
    /\ \E i \in Indices : trace[i][1] = "cacheHit"
    /\ lastDiff.present
    /\ "TERM" \in DOMAIN lastDiff.after
    /\ "TERM" \notin DOMAIN lastDiff.before
    /\ cachedEnv.present

\* the last call of activate() in the last handler invoked a foreign command
ForeignDeactivateInvoked ==
    \E i \in Indices :
        /\ trace[i][1] = "mamba"
        /\ \A j \in (i + 1)..Len(trace) : trace[j][1] # "activate"

Augmented(value) == pixiBinDir \o <<Delimiter>> \o value

\* how often the managed bin directory occurs in a PATH value
Occurrences(value) ==
    Cardinality({i \in 1..Len(value) :
        i + Len(pixiBinDir) - 1 <= Len(value)
        /\ SubSeq(value, i, i + Len(pixiBinDir) - 1) = pixiBinDir})

C7_RepeatedActivationIdentical ==
    (/\ op \in ActivationOps
     /\ prev.op = op
     /\ prev.res # <<"none">>
     /\ Resolution(trace) = prev.res)
    => collection = prev.coll

\* the same script is sourced by the same command twice in a row and PATH
\* holds one more copy of the script's directory the second time
C7_PathStacked ==
    /\ op = "activate"
    /\ prev.op = "activate"
    /\ prev.res[1] = "diff"
    /\ Resolution(trace) = prev.res
    /\ "PATH" \in DOMAIN collection
    /\ "PATH" \in DOMAIN prev.coll
    /\ Stacked(collection["PATH"].value) = Stacked(prev.coll["PATH"].value) + 1

\* C8: the offline diff returns exactly the keys of the after-script
\* environment whose value differs from, or is absent in, the before-script
\* environment, minus the exclusion list, each with its after-script value.
C8_DiffIsChangedKeysMinusExclusions ==
    lastDiff.present =>
        LET before == lastDiff.before
            after  == lastDiff.after
            changed == {k \in DOMAIN after :
                           k \notin DOMAIN before \/ before[k] # after[k]}
        IN  /\ DOMAIN lastDiff.updates =
                 changed \ {"_", "SHLVL", "PWD", "OLDPWD", "TERM", "TERMINFO", "TERMINFO_DIRS"}
            /\ \A k \in DOMAIN lastDiff.updates : lastDiff.updates[k] = after[k]

\* the script re-exports FOO=bar over a baseline that already holds it, and
\* the diff has no update for FOO
C8_ReexportYieldsNoUpdate ==
    /\ lastDiff.present
    /\ \E i \in Indices : trace[i][1] = "diff" /\ trace[i][3] = "S_foo"
    /\ "FOO" \in DOMAIN lastDiff.before
    /\ lastDiff.before["FOO"] = <<"bar">>
    /\ lastDiff.after["FOO"] = <<"bar">>
    /\ "FOO" \notin DOMAIN lastDiff.updates

\* C9: with no saved state and no configured default, autoActivate selects
\* nothing: nothing is persisted as selected, no variable is written to the
\* collection, and the active flag is false afterwards.
C9_NothingSavedNothingSelected ==
    (op \in AutoOps /\ prev.saved = Absent /\ cfgDefault = Absent)
    => /\ savedEnv = Absent
       /\ \A i \in Indices : trace[i][1] \notin {"coll", "proc", "state", "clear"}
       /\ collection = prev.coll
       /\ ~isActive

\* the default is unset while the flag is true after a trusted-default
\* activation, and autoActivate sets the flag to false
C9_FlagResetWithoutSelection ==
    /\ op = "defaultChanged"
    /\ prev.saved = Absent
    /\ cfgDefault = Absent
    /\ prev.res[1] = "hook"
    /\ \E i \in Indices : trace[i] = <<"active", "false">>

\* C10: with a saved state whose environment directory is missing,
\* autoActivate discards the saved state first: it does not activate from
\* the saved name and goes on as if nothing were saved.
C10_StaleSavedStateDiscarded ==
    (op \in AutoOps /\ prev.saved # Absent /\ prev.saved \notin prev.dirs)
    => /\ \A i \in Indices :
             (trace[i][1] \in {"hook", "diff"} /\ trace[i][2] = prev.saved)
             => cfgDefault = prev.saved
       /\ cfgDefault = Absent => savedEnv = Absent

\* autoActivate found nothing saved, a configured default and an empty list
\* of discovered environments
TrustedDefaultCase ==
    /\ op \in AutoOps
    /\ prev.saved = Absent
    /\ cfgDefault # Absent
    /\ Len(trace) >= 2
    /\ trace[2] = <<"envs">>

\* C11: with nothing saved, a configured default and an empty list of
\* discovered environments, autoActivate runs the install step for the
\* configured default, and the variables of that environment are resolved
\* only after the install step has succeeded; no other environment is
\* installed or resolved.
C11_TrustedDefaultForcesInstall ==
    TrustedDefaultCase =>
        /\ \E i \in Indices : trace[i][1] = "install" /\ trace[i][2] = cfgDefault
        /\ \A j \in Indices :
              trace[j][1] \in {"install", "hook", "diff"} => trace[j][2] = cfgDefault
        /\ \A j \in Indices :
              trace[j][1] = "hook"
              => \E i \in 1..(j - 1) : trace[i] = <<"install", cfgDefault, "0">>

\* the trusted default 'dev' is installed, resolved and active
C11_TrustedDefaultActivated ==
    /\ TrustedDefaultCase
    /\ cfgDefault = "dev"
    /\ \E i \in Indices : trace[i] = <<"install", "dev", "0">>
    /\ \E j \in Indices : trace[j][1] = "hook" /\ trace[j][2] = "dev"
    /\ isActive
    /\ "dev" \in envDirs

\* the persisted selection when event i of the last handler happened
SavedAt(i) ==
    LET hits == {x \in 1..(i - 1) : trace[x][1] = "state"}
    IN  IF hits = {} THEN prev.saved
        ELSE trace[CHOOSE x \in hits : \A y \in hits : y <= x][2]

\* C12: a silent activation selects the saved state, or else the configured
\* default, or else nothing: whatever it persists as selected, installs or
\* resolves is the environment that was saved when it started or the
\* configured one, never another discovered environment.
C12_SilentSelectsSavedOrDefault ==
    \A i \in Indices :
        trace[i] = <<"activate", "true">>
        => \A j \in (i + 1)..Len(trace) :
              trace[j][1] \in {"state", "install", "hook", "diff"}
              => trace[j][2] \in ({SavedAt(i), cfgDefault, cfgEnvironment} \ {Absent})

\* C13: when the install task ends with a non-zero exit code or with none,
\* the activation stops there: the shell-hook is not run, nothing is written
\* to the collection or to process.env or persisted after the failure, the
\* attempt writes no resolved variable at all, and it does not touch the
\* active flag.
C13_FailedInstallAborts ==
    \A i \in Indices :
        (trace[i][1] = "install" /\ trace[i][3] # "0")
        => /\ \A j \in (i + 1)..Len(trace) : trace[j][1] \in {"msg", "log"}
           /\ \A j \in Indices : trace[j][1] \notin {"hook", "active"}
           /\ \A j \in Indices :
                 trace[j][1] \in {"coll", "proc"} => trace[j][3] \notin {"hook", "msg"}

\* the install task for 'dev' ends without an exit code while an earlier
\* activation is in force
C13_InstallEndedWithoutCode ==
    /\ op = "activate"
    /\ prev.res[1] = "hook"
    /\ \E i \in Indices : trace[i] = <<"install", "dev", Absent>>
    /\ isActive

\* event i of the last handler is a diff subprocess whose output had no separator
DiffCaptureFailed(i) == trace[i][1] = "diff" /\ trace[i][3] = "S_nosep"

\* C14: when the separator is missing from the output of the diff
\* subprocess the offline activation is a hard stop: after the failure the
\* handler writes no variable, saves no snapshot, does not set the active
\* flag, does not run the diff subprocess again and does not go on to the
\* install task or the shell-hook.
C14_DiffCaptureFailureStops ==
    \A i \in Indices :
        DiffCaptureFailed(i)
        => \A j \in (i + 1)..Len(trace) :
              trace[j][1] \notin {"diff", "hook", "install", "coll", "proc", "cache", "active"}

\* event i of the last handler is an offline activation that found no script
ScriptNotFound(i) == trace[i][1] = "noscript"

\* the live path is entered for the offline environment after event i: its
\* install task or its shell-hook is run
LivePathAfter(i) ==
    \E j \in (i + 1)..Len(trace) :
        trace[j][1] \in {"install", "hook"} /\ trace[j][2] = offlineName

\* C15 (as stated): when no activation script is found the offline
\* activation raises no error and the caller goes on to the live activation
\* path for that environment.
C15_NoScriptFallsThroughToLive ==
    \A i \in Indices :
        ScriptNotFound(i)
        => /\ \A j \in Indices : trace[j] # <<"log", "error", "offline">>
           /\ LivePathAfter(i)

\* C15 (amended): when no activation script is found the offline activation
\* raises no error of its own; with the CLI installed the caller goes on to
\* the live path for the offline environment, and with the CLI missing the
\* handler runs no install task, no shell-hook and no diff afterwards, unless
\* the user first has the CLI installed from the setup offer.
C15_NoScriptFallsThroughWhenInstalled ==
    \A i \in Indices :
        ScriptNotFound(i)
        => /\ \A j \in Indices : trace[j] # <<"log", "error", "offline">>
           /\ trace[i][3] = "true" => LivePathAfter(i)
           /\ trace[i][3] = "false"
              => \/ \A j \in (i + 1)..Len(trace) :
                       trace[j][1] \notin {"install", "hook", "diff"}
                 \/ \E j \in (i + 1)..Len(trace) : trace[j] = <<"installPixi", "ok">>

\* a silent activation finds the offline directory without its script and
\* resolves the offline environment through the CLI
C15_SilentFallThrough ==
    /\ \E i \in Indices :
          /\ ScriptNotFound(i)
          /\ trace[i][3] = "true"
          /\ \E j \in (i + 1)..Len(trace) :
                trace[j] = <<"hook", offlineName, "H_old", "true">>
    /\ isActive

\* event i of the last handler is a shell-hook whose output is not a JSON
\* document with an environment-variable map
HookOffSchema(i) ==
    /\ trace[i][1] = "hook"
    /\ ~HookParses(trace[i][3]) \/ ~HookHasMap(trace[i][3])

\* C16: when the shell-hook output is invalid JSON or lacks the
\* environment-variable map, the attempt fails closed: nothing is written
\* to the collection or to process.env after it and the active flag is not
\* set; a missing map does not count as an empty one.
C16_OffSchemaHookFailsClosed ==
    \A i \in Indices :
        HookOffSchema(i)
        => \A j \in (i + 1)..Len(trace) : trace[j][1] \notin {"coll", "proc", "active"}

\* whether the call of activate() that event i belongs to is silent
SilentAt(i) ==
    LET hits == {x \in 1..(i - 1) : trace[x][1] = "activate"}
    IN  hits # {} /\ trace[CHOOSE x \in hits : \A y \in hits : y <= x][2] = "true"

\* event i of the last handler is activate() finding neither the CLI nor an
\* offline environment on disk
EngineMissing(i) ==
    /\ trace[i] = <<"log", "info", "pixi-missing">>
    /\ op # "loadOffline"
    /\ offlineName \notin prev.dirs

\* C17: when the CLI is not installed and no offline environment is on disk
\* the activation fails without having persisted a selection or written a
\* variable, and the setup offer is shown exactly when the call is not
\* silent; unless the offer is accepted nothing else happens.
C17_EngineMissingFails ==
    \A i \in Indices :
        EngineMissing(i)
        => /\ \A j \in 1..(i - 1) : trace[j][1] \notin {"state", "coll", "proc", "active"}
           /\ SilentAt(i) => i = Len(trace)
           /\ ~SilentAt(i)
              => /\ trace[i + 1] = <<"msg", "info", "create?">>
                 /\ \/ i + 1 = Len(trace)
                    \/ trace[i + 2] = <<"pick", "Create Environment">>

\* event i of the last handler is a failure of an activation: the install
\* task failed, the shell-hook output did not parse, or the diff had no
\* separator
ActivationFailure(i) ==
    \/ trace[i][1] = "install" /\ trace[i][3] # "0"
    \/ trace[i][1] = "hook" /\ ~HookParses(trace[i][3])
    \/ DiffCaptureFailed(i)

\* C18: a failure during a startup or automatic activation is logged only:
\* no error message is shown and no picker opened; the same failure in an
\* activation the user invoked is followed by an error message, and a
\* missing engine by the setup offer.
C18_SilentFailuresOnlyLogged ==
    /\ op \in AutoOps
       => \A i \in Indices :
             /\ trace[i][1] = "msg" => trace[i][2] # "error"
             /\ trace[i][1] # "pick"
    /\ op = "activate"
       => \A i \in Indices :
             /\ (ActivationFailure(i) /\ ~SilentAt(i + 1))
                => (i < Len(trace) /\ trace[i + 1][1] = "msg" /\ trace[i + 1][2] = "error")
             /\ (EngineMissing(i) /\ ~SilentAt(i))
                => (i < Len(trace) /\ trace[i + 1][1] = "msg")

\* C19: at most one activation is in flight at any time: a trigger that
\* arrives while a call of activate() is suspended at an await does not
\* start a second one.
C19_OneActivationInFlight == Len(inFlight) <= 1

\* the keys that only carry the activation message to new terminals
MessageKeys == {"PIXI_ACTIVATION_MSG", "PROMPT_COMMAND"}

\* C20: the collection and process.env are changed in lockstep: after an
\* activation or a deactivation every variable the collection replaces has
\* the same value in process.env (emptied conflict variables and applied
\* snapshot values included; unset counts as empty), and a key the
\* deactivation cleared from the collection is back to its launch value in
\* process.env.
C20_CollectionAndProcessAgree ==
    /\ op \in ActivationOps \cup {"deactivate", "clear"}
       => \A k \in DOMAIN collection \ MessageKeys :
             collection[k].op = "replace"
             => Get(procEnv, k) = collection[k].value
    /\ (\E i \in Indices : trace[i][1] = "deactivate")
       => \A k \in DOMAIN prev.coll \ MessageKeys :
             Get(procEnv, k) = Get(AmbientEnv(ambient), k)

\* the update set of the resolution the last handler ended with
AppliedUpdates ==
    IF Resolution(trace)[1] = "hook" THEN HookEnvVars(Resolution(trace)[3])
    ELSE lastDiff.updates

\* C21: after a successful activation, live or offline, every conflict
\* variable that the update set does not set is in the collection with an
\* explicit replace by the empty value.
C21_ConflictsEmptiedOnEveryPath ==
    Resolution(trace)[1] \in {"hook", "diff"}
    => \A c \in Range(conflicts) :
          c \notin DOMAIN AppliedUpdates
          => /\ c \in DOMAIN collection
             /\ collection[c] = [value |-> <<>>, op |-> "replace"]

\* C22: a live activation never writes TERM, TERMINFO or TERMINFO_DIRS to
\* the collection or to process.env, even when the shell-hook output
\* reports them.
C22_LivePathDropsTerminalKeys ==
    \A i \in Indices :
        (trace[i][1] \in {"coll", "proc"} /\ trace[i][3] = "hook")
        => trace[i][2] \notin TermKeys

\* C23: after a successful activation, by any entry point, the persisted
\* selection is the environment whose variables were applied; the active
\* flag is not true from it with nothing persisted.
C23_SelectionPersistedOnSuccess ==
    Resolution(trace)[1] \in {"hook", "diff"}
    => /\ savedEnv # Absent
       /\ savedEnv = Resolution(trace)[2]

\* the directory under .pixi/envs that holds environment e
DirOf(e) == IF e = "" THEN "default" ELSE e

\* the environment directories when the last handler reached doActivate
DirsAtActivation == IF op = "loadOffline" THEN envDirs ELSE prev.dirs

\* C24: on the live path the install task runs if and only if the
\* activation is not silent or the directory of the target environment is
\* missing; a silent activation of an environment whose directory is
\* missing installs before it resolves.
C24_InstallIffLoudOrMissing ==
    \A j \in Indices :
        trace[j][1] = "hook"
        => ((\E i \in 1..(j - 1) : trace[i] = <<"install", trace[j][2], "0">>)
            <=> (trace[j][4] = "false" \/ DirOf(trace[j][2]) \notin DirsAtActivation))

\* the value the live path may leave for key k when the CLI reported v
ReportedOrAugmented(k, v, held) ==
    \/ held = v
    \/ k = "PATH" /\ held = pixiBinDir \o <<Delimiter>> \o v

\* C25: after a successful live activation every key of the variable map
\* of the shell-hook output is held by the collection (as a replace) and by
\* process.env with exactly the reported value, PATH possibly prefixed with
\* the managed binary directory; whatever either held before is overwritten.
C25_LiveAppliesReportedValues ==
    Resolution(trace)[1] = "hook"
    => \A k \in DOMAIN HookEnvVars(Resolution(trace)[3]) :
          /\ k \in DOMAIN collection
          /\ collection[k].op = "replace"
          /\ ReportedOrAugmented(k, HookEnvVars(Resolution(trace)[3])[k],
                                 collection[k].value)
          /\ Has(procEnv, k)
          /\ ReportedOrAugmented(k, HookEnvVars(Resolution(trace)[3])[k],
                                 procEnv[k])

\* a live activation over a collection that held another value for a key
\* the CLI reports
C25_LiveOverwrotePrevious ==
    /\ Resolution(trace)[1] = "hook"
    /\ \E k \in DOMAIN HookEnvVars(Resolution(trace)[3]) \cap DOMAIN prev.coll :
          /\ k # "PATH"
          /\ prev.coll[k].value # HookEnvVars(Resolution(trace)[3])[k]
          /\ collection[k].value = HookEnvVars(Resolution(trace)[3])[k]

\* the writes of a snapshot come before the diff that follows its cache hit
CacheWritesPrecedeDiff ==
    \A i, j \in Indices :
        (i < j /\ trace[i][1] = "cacheHit"
               /\ trace[j][1] \in {"coll", "proc"} /\ trace[j][3] = "cache")
        => ~ \E d \in (i + 1)..(j - 1) : trace[d][1] = "diff"

C27_ShowDefaultRespected ==
    (envQuery.called /\ envQuery.info.ok /\ "default" \in Range(envQuery.info.names))
    => (envQuery.showDefault <=> "default" \in Range(envQuery.result))

\* C28: a call of generateActivationScripts leaves every script that
\* existed with the content it had, and a script that was missing either
\* missing or with the generated content.
C28_ExistingScriptsKept ==
    scripts.op = "generate"
    => \A f \in ScriptNames :
          IF scripts.before[f].exists
          THEN scripts.files[f] = scripts.before[f]
          ELSE scripts.files[f] \in {NoFile, Generated(f)}

\* a later call that found a user's activate.sh and no activate.bat, and
\* created the missing one
C28_CustomKeptMissingCreated ==
    /\ scripts.op = "generate"
    /\ scripts.calls >= 2
    /\ scripts.before["activate.sh"] = [exists |-> TRUE, content |-> <<"# custom content">>]
    /\ scripts.before["activate.bat"] = NoFile
    /\ scripts.files["activate.bat"] = Generated("activate.bat")

\* C29: a call of downloadFile makes a bounded number of requests and then
\* settles, whatever the server answers, redirects included.
C29_DownloadSettles == <>(download.phase \in {"resolved", "rejected"})

\* where the call of activate() that reached trace[i] began
ActivationStart(i) ==
    CHOOSE a \in 0..i :
        /\ a = 0 \/ trace[a][1] = "activate"
        /\ \A b \in (a + 1)..i : trace[b][1] # "activate"

\* C30: when the conflict detector invokes the foreign deactivate command,
\* the collection has been cleared by that activation, the settle delay
\* follows the command's completion, and no variable is written by that
\* activation before the delay is over.
C30_ForeignDeactivateOrdered ==
    \A i \in Indices :
        trace[i][1] = "mamba"
        => /\ \E c \in (ActivationStart(i) + 1)..(i - 1) : trace[c] = <<"clear">>
           /\ i < Len(trace) /\ trace[i + 1] = <<"settle">>
           /\ \A j \in (ActivationStart(i) + 1)..(i + 1) :
                 trace[j][1] \notin {"coll", "proc"}

\* C30, amended: the foreign command is invoked after the clear and before
\* any write of that activation; when it completes the settle delay follows
\* at once and the writes come after it, and when it rejects the error is
\* logged and the writes come after that, without a delay.
C30_ForeignDeactivateOrderedUnlessFailed ==
    \A i \in Indices :
        trace[i][1] = "mamba"
        => /\ \E c \in (ActivationStart(i) + 1)..(i - 1) : trace[c] = <<"clear">>
           /\ i < Len(trace)
           /\ trace[i + 1] \in {<<"settle">>, <<"log", "error", "mamba">>}
           /\ \A j \in (ActivationStart(i) + 1)..(i + 1) :
                 trace[j][1] \notin {"coll", "proc"}

\* the foreign command completed, the delay followed, and the same
\* activation then applied a snapshot
\* and resolved variables
C30_WritesAfterSettle ==
    \E i, j, k \in Indices :
        /\ i < j /\ j < k
        /\ trace[i][1] = "mamba" /\ trace[i + 1] = <<"settle">>
        /\ trace[j][1] = "coll" /\ trace[j][3] = "cache"
        /\ trace[k][1] = "coll" /\ trace[k][3] \in {"diff", "hook"}
        /\ ActivationStart(k) = ActivationStart(i)

\* C31: the selection is persisted only when an activation is applied: a
\* handler whose attempt failed after the target was chosen (install
\* failure, unparsable shell-hook output, diff capture failure) and that
\* applied nothing leaves the persisted selection as it found it.
C31_FailedAttemptKeepsSelection ==
    (/\ \E i \in Indices : ActivationFailure(i)
     /\ Resolution(trace) = <<"none">>)
    => savedEnv = prev.saved

\* the last two steps were the resumptions of two calls of activate() that
\* were suspended together, and each applied an environment
OverlappedActivationsDone ==
    /\ inFlight = <<>>
    /\ prev.res[1] \in {"hook", "diff"}
    /\ Resolution(trace)[1] \in {"hook", "diff"}
    /\ \A i \in Indices : trace[i] # <<"clear">>

\* C32: when two activations for different environments overlap, then once
\* both have finished the collection holds the variables of one of them
\* only, and that one is the persisted selection.
C32_OverlapLeavesOneEnvironment ==
    (OverlappedActivationsDone /\ prev.res[2] # Resolution(trace)[2])
    => /\ savedEnv = Resolution(trace)[2]
       /\ \A k \in DOMAIN collection :
             \E i \in Indices : trace[i][1] = "coll" /\ trace[i][2] = k

\* the last step was the resumption of a suspended call of activate()
LastStepResumed ==
    /\ op \in {"activate", "defaultChanged"}
    /\ trace = <<>> \/ trace[1][1] \notin {"activate", "autoActivate"}

\* C33: when deactivate runs to its end while an earlier activation is
\* suspended, the deactivation wins: once the activation has finished too,
\* the selection and the snapshot are absent, the collection is empty and
\* the active flag is false.
C33_DeactivationWins ==
    (inFlight = <<>> /\ LastStepResumed /\ prev.op = "deactivate")
    => /\ savedEnv = Absent
       /\ cachedEnv = NoCache
       /\ collection = EmptyMap
       /\ ~isActive

\* what the activation script sets relative to the environment the editor
\* was launched with
ScriptSets ==
    ComputeDiff(parseEnv(printenv(AmbientEnv(ambient))),
                parseEnv(printenv(RunScript(scriptFile, AmbientEnv(ambient)))))

\* C34: after a successful offline activation, whatever activations and
\* deactivations came before it in the session, the collection and the new
\* snapshot hold every variable the script sets relative to the editor's
\* original environment, PATH included.
C34_OfflineKeepsEveryScriptVariable ==
    (Resolution(trace)[1] = "diff" /\ \E i \in Indices : trace[i][1] = "cache")
    => \A k \in DOMAIN ScriptSets :
          /\ k \in DOMAIN collection
          /\ collection[k].value # <<>>
          /\ k \in DOMAIN cachedEnv.envVars

\* C35: between handlers the active flag is true only if a selection is
\* persisted and the collection holds applied variables; an activation that
\* cleared the collection and then failed or returned early does not leave
\* the flag true over the cleared collection.
C35_ActiveMeansApplied ==
    isActive => (savedEnv # Absent /\ collection # EmptyMap)

\* what a dismissed picker ends: the interactive activate command returned at
\* environment.ts 1292, nothing was selected
PickerDismissed ==
    /\ op = "activate"
    /\ \E i \in Indices \ {1} :
          /\ trace[i] = <<"pick", Absent>>
          /\ trace[i - 1][1] = "envs"
          /\ \A j \in Indices : j > i => trace[j][1] \notin {"activate", "envs"}

\* C36: when the user dismisses the environment picker of an interactive
\* activate, the collection, the process environment, the persisted
\* selection, the cache snapshot and the active flag are what they were before
\* the call
C36_DismissedPickerChangesNothing ==
    PickerDismissed
    => /\ collection = prev.coll
       /\ procEnv = prev.env
       /\ savedEnv = prev.saved
       /\ cachedEnv = prev.cached
       /\ isActive = prev.active

\* C36 (amended): a dismissed picker leaves the persisted selection, the cache
\* snapshot and the active flag as they were; the collection was cleared at
\* entry and holds nothing but the values of the cache snapshot, and the
\* process environment differs from before in those values only
C36_DismissedPickerKeepsSelection ==
    PickerDismissed
    => /\ savedEnv = prev.saved
       /\ cachedEnv = prev.cached
       /\ isActive = prev.active
       /\ \A k \in DOMAIN collection :
             /\ k \in DOMAIN cachedEnv.envVars
             /\ collection[k] = [op |-> "replace", value |-> cachedEnv.envVars[k]]
       /\ \A k \in DOMAIN procEnv \cup DOMAIN prev.env :
             \/ k \in DOMAIN procEnv /\ k \in DOMAIN prev.env /\ procEnv[k] = prev.env[k]
             \/ k \in DOMAIN collection /\ procEnv[k] = cachedEnv.envVars[k]

\* the picker was dismissed over an environment an earlier command had applied
C36_DismissedOverActive ==
    /\ PickerDismissed
    /\ prev.res[1] \in {"hook", "diff"}
    /\ prev.coll # EmptyMap
    /\ prev.active
    /\ collection # prev.coll

\* a handler is suspended at the reload prompt
AwaitingReloadAnswer ==
    /\ inFlight # <<>>
    /\ ~Head(inFlight).answered
    /\ trace # <<>>
    /\ trace[Len(trace)] = <<"msg", "info", "reload?">>

\* C37: once an interactive activation has applied its variables the active
\* flag eventually becomes true, and once an interactive deactivation has
\* cleared them it eventually becomes false, whether or not the reload prompt
\* is ever answered
C37_FlagFollowsWithoutAnswer ==
    /\ (AwaitingReloadAnswer /\ op = "activate") ~> isActive
    /\ (AwaitingReloadAnswer /\ op = "deactivate") ~> ~isActive

\* C38: the wait on the install task settles once the task's process has
\* ended; it resolves only on exit code 0 of that process and rejects only on
\* another or an absent exit code of it (or when the task could not be
\* started), whatever other tasks end meanwhile
C38_InstallWaitSettles ==
    /\ [](install.phase = "resolved"
            => install.process = "ended" /\ install.exitCode = "0")
    /\ [](install.phase = "rejected" /\ install.task = "started"
            => install.process = "ended" /\ install.exitCode # "0")
    /\ (install.process = "ended") ~> (install.phase \in {"resolved", "rejected"})

====
